---- MODULE Spec2Model ----
(***************************************************************************)
(* A model of compute_oasis (src/oasis.py): the Oxford Acute Severity of   *)
(* Illness Score of one patient encounter.                                 *)
(*                                                                         *)
(* Numbers are kept in hundredths (4.95 hours is 495, a heart rate of      *)
(* 125.01 is 12501): every threshold of the source has at most two         *)
(* decimals, so every comparison of the source is an integer comparison    *)
(* here.  A cell of the table, an accumulator and the score are all        *)
(* "values": a number, the float NaN, or a string.  The name np of the     *)
(* source is taken to be numpy.                                            *)
(***************************************************************************)
EXTENDS Integers, Sequences, FiniteSets, TLC

VARIABLES pd_dataframe, pc, oasis, points, oasis_score

vars == <<pd_dataframe, pc, oasis, points, oasis_score>>

\* The longest column drawn from a variable's whole domain.
MaxRows == 2

\* The largest number of variables left without an observation at once.
MaxMissing == 1

-----------------------------------------------------------------------------
(* Values *)

Num(x) == [k |-> "num", n |-> x, s |-> ""]

Str(t) == [k |-> "str", n |-> 0, s |-> t]

NaN == [k |-> "nan", n |-> 0, s |-> ""]

\* The columns, in the order the source scores them.
Columns ==
  <<"prelos", "age", "GCS_total", "hrate", "MAP", "resp_rate", "temp_c",
    "urine", "ventilated", "admission_type">>

Vars == {Columns[i] : i \in DOMAIN Columns}

NumericCols ==
  {"prelos", "age", "GCS_total", "hrate", "MAP", "resp_rate", "temp_c", "urine"}

SeriesCols == Vars \ {"urine"}

\* Python's comparisons of a cell with a number: every one is False on NaN.
Lt(val, c) == val.k = "num" /\ val.n < c

Le(val, c) == val.k = "num" /\ val.n <= c

Gt(val, c) == val.k = "num" /\ val.n > c

Ge(val, c) == val.k = "num" /\ val.n >= c

EqNum(val, c) == val.k = "num" /\ val.n = c

EqStr(val, t) == val.k = "str" /\ val.s = t

\* An ordering comparison of a string with a number raises TypeError.
RaisesTypeError(val) == val.k = "str"

\* pandas' isnull of one cell.
IsNull(val) == val.k = "nan"

-----------------------------------------------------------------------------
(* numpy and pandas *)

\* A loop that keeps the point value of the row just read.
NanMaxLast(a, b) == a

\* np.max in place of np.nanmax: NaN if either is NaN.
NanMaxPropagating(a, b) ==
  IF a.k = "nan" \/ b.k = "nan" THEN NaN
  ELSE IF a.n >= b.n THEN a ELSE b

\* np.nanmax([a, b]) with both NaN: NaN; with one NaN: the other.
NanMax(a, b) ==
  IF a.k = "nan" THEN b
  ELSE IF b.k = "nan" THEN a
  ELSE IF a.n >= b.n THEN a ELSE b

\* An all() that the empty column does not satisfy.
IsNullAllNonEmpty(col) ==
  Len(col) > 0 /\ \A i \in DOMAIN col : IsNull(col[i])

\* pd_dataframe[col].isnull().all(): True of the empty column too.
IsNullAll(col) == \A i \in DOMAIN col : IsNull(col[i])

\* np.max of a column is the column's max(), which skips NaN: the largest
\* number present, NaN when there is none.
SeriesMax(col) ==
  LET present == {i \in DOMAIN col : col[i].k = "num"}
  IN  IF present = {} THEN NaN
      ELSE col[CHOOSE i \in present : \A j \in present : col[i].n >= col[j].n]

-----------------------------------------------------------------------------
(* The point value of one observation: the first element of the list each  *)
(* branch hands to np.nanmax; the final else of each chain gives NaN.      *)

\* Pre-ICU length of stay, hours
ClassifyPrelos(val) ==
  IF Ge(val, 495) /\ Le(val, 2400) THEN Num(0)
  ELSE IF Gt(val, 31180) THEN Num(1)
  ELSE IF Gt(val, 2400) /\ Le(val, 31180) THEN Num(2)
  ELSE IF Ge(val, 17) /\ Lt(val, 495) THEN Num(3)
  ELSE IF Lt(val, 17) THEN Num(5)
  ELSE NaN

\* Age, years
ClassifyAgeTypo(val) ==
  IF Lt(val, 2400) THEN Num(0)
  ELSE IF Ge(val, 2400) /\ Le(val, 5300) THEN Num(3)
  ELSE IF Gt(val, 5300) /\ Le(val, 7700) THEN Num(6)
  ELSE IF Gt(val, 7700) /\ Le(val, 8900) THEN Num(97)
  ELSE IF Gt(val, 8900) THEN Num(7)
  ELSE NaN

ClassifyAge(val) ==
  IF Lt(val, 2400) THEN Num(0)
  ELSE IF Ge(val, 2400) /\ Le(val, 5300) THEN Num(3)
  ELSE IF Gt(val, 5300) /\ Le(val, 7700) THEN Num(6)
  ELSE IF Gt(val, 7700) /\ Le(val, 8900) THEN Num(9)
  ELSE IF Gt(val, 8900) THEN Num(7)
  ELSE NaN

\* Glasgow Coma Scale
ClassifyGcs(val) ==
  IF EqNum(val, 1500) THEN Num(0)
  ELSE IF EqNum(val, 1400) THEN Num(3)
  ELSE IF Ge(val, 800) /\ Le(val, 1300) THEN Num(4)
  ELSE IF Ge(val, 300) /\ Le(val, 700) THEN Num(10)
  ELSE NaN

\* Heart rate
ClassifyHrStrict(val) ==
  IF Ge(val, 3300) /\ Le(val, 8800) THEN Num(0)
  ELSE IF Gt(val, 8800) /\ Le(val, 10600) THEN Num(1)
  ELSE IF Gt(val, 10600) /\ Lt(val, 12500) THEN Num(3)
  ELSE IF Lt(val, 3300) THEN Num(4)
  ELSE IF Gt(val, 12500) THEN Num(6)
  ELSE NaN

ClassifyHr(val) ==
  IF Ge(val, 3300) /\ Le(val, 8800) THEN Num(0)
  ELSE IF Gt(val, 8800) /\ Le(val, 10600) THEN Num(1)
  ELSE IF Gt(val, 10600) /\ Le(val, 12500) THEN Num(3)
  ELSE IF Lt(val, 3300) THEN Num(4)
  ELSE IF Gt(val, 12500) THEN Num(6)
  ELSE NaN

\* Mean arterial pressure
ClassifyMap(val) ==
  IF Ge(val, 6133) /\ Le(val, 14344) THEN Num(0)
  ELSE IF Ge(val, 5100) /\ Lt(val, 6133) THEN Num(2)
  ELSE IF (Ge(val, 2065) /\ Lt(val, 5100)) \/ Gt(val, 14344) THEN Num(3)
  ELSE IF Lt(val, 2065) THEN Num(4)
  ELSE NaN

\* Respiratory rate
ClassifyResp(val) ==
  IF Ge(val, 1300) /\ Le(val, 2200) THEN Num(0)
  ELSE IF (Ge(val, 600) /\ Le(val, 1200)) \/ (Ge(val, 2300) /\ Le(val, 3000))
    THEN Num(1)
  ELSE IF Gt(val, 3000) /\ Le(val, 4400) THEN Num(6)
  ELSE IF Gt(val, 4400) THEN Num(9)
  ELSE IF Lt(val, 600) THEN Num(10)
  ELSE NaN

\* Temperature, C
ClassifyTempMerged(val) ==
  IF Ge(val, 3640) /\ Le(val, 3688) THEN Num(0)
  ELSE IF (Ge(val, 3594) /\ Lt(val, 3640)) \/ (Gt(val, 3688) /\ Le(val, 3988))
    THEN Num(2)
  ELSE IF Lt(val, 3594) THEN Num(4)
  ELSE IF Gt(val, 3988) THEN Num(6)
  ELSE NaN

ClassifyTemp(val) ==
  IF Ge(val, 3640) /\ Le(val, 3688) THEN Num(0)
  ELSE IF (Ge(val, 3594) /\ Lt(val, 3640)) \/ (Gt(val, 3688) /\ Le(val, 3988))
    THEN Num(2)
  ELSE IF Lt(val, 3322) THEN Num(3)
  ELSE IF Ge(val, 3322) /\ Lt(val, 3594) THEN Num(4)
  ELSE IF Gt(val, 3988) THEN Num(6)
  ELSE NaN

\* Urine output, cc/day (total over 24h)
ClassifyUrine(val) ==
  IF Ge(val, 254400) /\ Le(val, 689600) THEN Num(0)
  ELSE IF Ge(val, 142700) /\ Lt(val, 254400) THEN Num(1)
  ELSE IF Ge(val, 67100) /\ Lt(val, 142700) THEN Num(5)
  ELSE IF Gt(val, 689600) THEN Num(8)
  ELSE IF Lt(val, 67100) THEN Num(10)
  ELSE NaN

\* Ventilated y/n
ClassifyVent(val) ==
  IF EqStr(val, "n") THEN Num(0)
  ELSE IF EqStr(val, "y") THEN Num(9)
  ELSE NaN

\* Elective surgery y/n
ClassifySurg(val) ==
  IF EqStr(val, "elective") THEN Num(0)
  ELSE IF EqStr(val, "urgent") \/ EqStr(val, "emergency") THEN Num(6)
  ELSE NaN

Classify(v, val) ==
  CASE v = "prelos" -> ClassifyPrelos(val)
    [] v = "age" -> ClassifyAge(val)
    [] v = "GCS_total" -> ClassifyGcs(val)
    [] v = "hrate" -> ClassifyHr(val)
    [] v = "MAP" -> ClassifyMap(val)
    [] v = "resp_rate" -> ClassifyResp(val)
    [] v = "temp_c" -> ClassifyTemp(val)
    [] v = "urine" -> ClassifyUrine(val)
    [] v = "ventilated" -> ClassifyVent(val)
    [] v = "admission_type" -> ClassifySurg(val)

-----------------------------------------------------------------------------
(* One variable's block *)

\* for val in pd_dataframe[v]: acc = np.nanmax([points of val, acc]),
\* from row i on.
RECURSIVE Loop(_, _, _, _)
Loop(v, col, i, acc) ==
  IF i > Len(col) THEN acc
  ELSE Loop(v, col, i + 1, NanMax(Classify(v, col[i]), acc))

\* The point values the block hands to np.nanmax, in order: one for each row
\* of a series variable, one (that of the column's maximum) for urine.
PointsOf(v, col) ==
  IF v = "urine" THEN <<ClassifyUrine(SeriesMax(col))>>
  ELSE [i \in DOMAIN col |-> Classify(v, col[i])]

\* The block's accumulator before the isnull test; it starts at 0.
UrinePerObservation(v, col) == Loop(v, col, 1, Num(0))

Accumulate(v, col) ==
  IF v = "urine" THEN NanMax(ClassifyUrine(SeriesMax(col)), Num(0))
  ELSE Loop(v, col, 1, Num(0))

\* The block's sub-score: NaN when the column holds no observation.
SubScoreUnclassified(v, col) ==
  IF \A i \in DOMAIN col : Classify(v, col[i]) = NaN THEN NaN
  ELSE Accumulate(v, col)

SubScore(v, col) ==
  IF IsNullAll(col) THEN NaN ELSE Accumulate(v, col)

\* A numeric block raises TypeError at the first comparison of a string
\* with a number (for urine, np.max or the first comparison after it).
Raises(v, col) ==
  v \in NumericCols /\ \E i \in DOMAIN col : RaisesTypeError(col[i])

\* Python's float addition: NaN if either side is NaN.
Add(a, b) ==
  IF a.k = "nan" \/ b.k = "nan" THEN NaN ELSE Num(a.n + b.n)

\* sum([oasis_prelos, ..., oasis_surg]): 0 + the ten, left to right.
RECURSIVE SumFrom(_, _, _)
SumFrom(sub, i, acc) ==
  IF i > Len(Columns) THEN acc
  ELSE SumFrom(sub, i + 1, Add(acc, sub[Columns[i]]))

SumCountingFirstTwice(sub) == Add(sub[Columns[1]], SumFrom(sub, 1, Num(0)))

Sum(sub) == SumFrom(sub, 1, Num(0))

\* The whole function on a table that raises nothing.
ComputeOasis(df) == Sum([v \in Vars |-> SubScore(v, df[v])])

-----------------------------------------------------------------------------
(* The tables the function is run on *)

Nums(S) == {Num(x) : x \in S}

Strs(S) == {Str(t) : t \in S}

\* The observations a column of each variable is drawn from: every threshold
\* of its chain with its neighbours one hundredth away, and the missing value.
Dom(v) ==
  CASE v = "prelos" ->
         Nums({16, 17, 494, 495, 2400, 2401, 31180, 31181}) \cup {NaN}
    [] v = "age" ->
         Nums({2399, 2400, 5300, 5301, 7700, 7701, 8900, 8901}) \cup {NaN}
    [] v = "GCS_total" ->
         Nums({200, 300, 700, 750, 800, 1300, 1400, 1500, 1600}) \cup {NaN}
    [] v = "hrate" ->
         Nums({3299, 3300, 8800, 8801, 10600, 10601, 12500, 12501}) \cup {NaN}
    [] v = "MAP" ->
         Nums({2064, 2065, 5099, 5100, 6132, 6133, 14344, 14345}) \cup {NaN}
    [] v = "resp_rate" ->
         Nums({599, 600, 1200, 1250, 1300, 2200, 2250, 2300, 3000, 3001,
               4400, 4401}) \cup {NaN}
    [] v = "temp_c" ->
         Nums({3321, 3322, 3593, 3594, 3639, 3640, 3688, 3689, 3988, 3989})
           \cup {NaN}
    [] v = "urine" ->
         Nums({67099, 67100, 142699, 142700, 254399, 254400, 689600, 689601})
           \cup {NaN}
    [] v = "ventilated" -> Strs({"n", "y", "maybe"}) \cup {NaN}
    [] v = "admission_type" ->
         Strs({"elective", "urgent", "emergency", "transfer"}) \cup {NaN}

\* Cells of the wrong type for a column: a string among numbers, a number
\* among category names.
Malformed(v) ==
  IF v \in NumericCols THEN Strs({"abc"}) ELSE Nums({100})

SeqsUpTo(S, n) == UNION {[1 .. m -> S] : m \in 0 .. n}

\* prelos=[10], age=[60], GCS_total=[15], hrate=[70], MAP=[80],
\* resp_rate=[18], temp_c=[36.5], urine=[3000], ventilated=["n"],
\* admission_type=["elective"]
Typical ==
  [v \in Vars |->
     CASE v = "prelos" -> <<Num(1000)>>
       [] v = "age" -> <<Num(6000)>>
       [] v = "GCS_total" -> <<Num(1500)>>
       [] v = "hrate" -> <<Num(7000)>>
       [] v = "MAP" -> <<Num(8000)>>
       [] v = "resp_rate" -> <<Num(1800)>>
       [] v = "temp_c" -> <<Num(3650)>>
       [] v = "urine" -> <<Num(300000)>>
       [] v = "ventilated" -> <<Str("n")>>
       [] v = "admission_type" -> <<Str("elective")>>]

\* The same encounter at its worst: each variable's highest point value.
Severe ==
  [v \in Vars |->
     CASE v = "prelos" -> <<Num(10)>>
       [] v = "age" -> <<Num(8000)>>
       [] v = "GCS_total" -> <<Num(300)>>
       [] v = "hrate" -> <<Num(13000)>>
       [] v = "MAP" -> <<Num(2000)>>
       [] v = "resp_rate" -> <<Num(500)>>
       [] v = "temp_c" -> <<Num(4000)>>
       [] v = "urine" -> <<Num(50000)>>
       [] v = "ventilated" -> <<Str("y")>>
       [] v = "admission_type" -> <<Str("urgent")>>]

\* Columns the text of the function's contract cites.
Cited(v) ==
  CASE v = "hrate" -> {<<Num(9000), Num(4000), Num(13000)>>}
    [] v = "urine" -> {<<Num(50000), Num(300000)>>, <<Num(50000)>>}
    [] v = "temp_c" -> {<<Num(3000)>>}
    [] OTHER -> {}

\* A column without an observation in a frame of one row: one missing value.
\* (InitColumn draws the columns of no row and of several missing values.)
NoObservation == <<NaN>>

-----------------------------------------------------------------------------
(* The state machine: pc is the block about to run *)

\* oasis_score, oasis_prelos, ... = 0,0,0,0,0,0,0,0,0,0,0
Start(df) ==
  /\ pd_dataframe = df
  /\ pc = "prelos"
  /\ oasis = [v \in Vars |-> Num(0)]
  /\ points = [v \in Vars |-> <<>>]
  /\ oasis_score = Num(0)

\* The sets of at most MaxMissing variables.
MissingSets == {m \in SUBSET Vars : Cardinality(m) <= MaxMissing}

\* Every variable typical or severe, at most MaxMissing of them without an
\* observation.
InitEncounter ==
  \E missing \in MissingSets :
    \E level \in [Vars \ missing -> {"typical", "severe"}] :
      Start([v \in Vars |->
               IF v \in missing THEN NoObservation
               ELSE IF level[v] = "typical" THEN Typical[v] ELSE Severe[v]])

\* One variable's column drawn from its whole domain, the others all typical
\* or all severe.
InitColumn ==
  \E v \in Vars, rest \in {Typical, Severe} :
    \E col \in SeqsUpTo(Dom(v), MaxRows) \cup Cited(v) :
      Start([rest EXCEPT ![v] = col])

\* As InitColumn, with cells of the wrong type among those of the column.
InitMalformed ==
  \E v \in Vars, rest \in {Typical, Severe} :
    \E col \in SeqsUpTo({NaN, Typical[v][1], Severe[v][1]} \cup Malformed(v),
                         MaxRows) :
      Start([rest EXCEPT ![v] = col])

\* The tables whose cells all have their column's type.
Init == InitEncounter \/ InitColumn

Block(v, next) ==
  /\ IF Raises(v, pd_dataframe[v])
       THEN /\ pc' = "raised"
            /\ UNCHANGED <<oasis, points>>
       ELSE /\ oasis' = [oasis EXCEPT ![v] = SubScore(v, pd_dataframe[v])]
            /\ points' = [points EXCEPT ![v] = PointsOf(v, pd_dataframe[v])]
            /\ pc' = next
  /\ UNCHANGED <<pd_dataframe, oasis_score>>

ScorePrelos ==
  /\ pc = "prelos"
  /\ Block("prelos", "age")

ScoreAge ==
  /\ pc = "age"
  /\ Block("age", "GCS_total")

ScoreGcs ==
  /\ pc = "GCS_total"
  /\ Block("GCS_total", "hrate")

ScoreHr ==
  /\ pc = "hrate"
  /\ Block("hrate", "MAP")

ScoreMap ==
  /\ pc = "MAP"
  /\ Block("MAP", "resp_rate")

ScoreResp ==
  /\ pc = "resp_rate"
  /\ Block("resp_rate", "temp_c")

ScoreTemp ==
  /\ pc = "temp_c"
  /\ Block("temp_c", "urine")

ScoreUrine ==
  /\ pc = "urine"
  /\ Block("urine", "ventilated")

ScoreVent ==
  /\ pc = "ventilated"
  /\ Block("ventilated", "admission_type")

ScoreSurg ==
  /\ pc = "admission_type"
  /\ Block("admission_type", "sum")

ReturnSum ==
  /\ pc = "sum"
  /\ oasis_score' = Sum(oasis)
  /\ pc' = "done"
  /\ UNCHANGED <<pd_dataframe, oasis, points>>

Next ==
  \/ ScorePrelos
  \/ ScoreAge
  \/ ScoreGcs
  \/ ScoreHr
  \/ ScoreMap
  \/ ScoreResp
  \/ ScoreTemp
  \/ ScoreUrine
  \/ ScoreVent
  \/ ScoreSurg
  \/ ReturnSum

Spec == Init /\ [][Next]_vars

SpecMalformed == InitMalformed /\ [][Next]_vars

-----------------------------------------------------------------------------
(* What the claims are stated with *)

Done == pc = "done"

\* The rows of a column that hold an observation (a value that is not missing).
Present(col) == {i \in DOMAIN col : col[i] # NaN}

Max(S) == CHOOSE x \in S : \A y \in S : x >= y

\* The documented breakpoint tables, row by row as documented, on hundredths.
TablePrelos(x) ==
  CASE x < 17 -> Num(5)
    [] 17 <= x /\ x < 495 -> Num(3)
    [] 495 <= x /\ x <= 2400 -> Num(0)
    [] 2400 < x /\ x <= 31180 -> Num(2)
    [] x > 31180 -> Num(1)
    [] OTHER -> NaN

TableAge(x) ==
  CASE x < 2400 -> Num(0)
    [] 2400 <= x /\ x <= 5300 -> Num(3)
    [] 5300 < x /\ x <= 7700 -> Num(6)
    [] 7700 < x /\ x <= 8900 -> Num(9)
    [] x > 8900 -> Num(7)
    [] OTHER -> NaN

TableGcs(x) ==
  CASE 300 <= x /\ x <= 700 -> Num(10)
    [] 800 <= x /\ x <= 1300 -> Num(4)
    [] x = 1400 -> Num(3)
    [] x = 1500 -> Num(0)
    [] OTHER -> NaN

TableHr(x) ==
  CASE x < 3300 -> Num(4)
    [] 3300 <= x /\ x <= 8800 -> Num(0)
    [] 8800 < x /\ x <= 10600 -> Num(1)
    [] 10600 < x /\ x <= 12500 -> Num(3)
    [] x > 12500 -> Num(6)
    [] OTHER -> NaN

TableMap(x) ==
  CASE x < 2065 -> Num(4)
    [] 2065 <= x /\ x < 5100 -> Num(3)
    [] 5100 <= x /\ x < 6133 -> Num(2)
    [] 6133 <= x /\ x <= 14344 -> Num(0)
    [] x > 14344 -> Num(3)
    [] OTHER -> NaN

TableResp(x) ==
  CASE x < 600 -> Num(10)
    [] 600 <= x /\ x <= 1200 -> Num(1)
    [] 1300 <= x /\ x <= 2200 -> Num(0)
    [] 2300 <= x /\ x <= 3000 -> Num(1)
    [] 3000 < x /\ x <= 4400 -> Num(6)
    [] x > 4400 -> Num(9)
    [] OTHER -> NaN

\* The temp_c table as documented; low is the point value of its first row.
TableTemp(x, low) ==
  CASE x < 3322 -> Num(low)
    [] 3322 <= x /\ x < 3594 -> Num(4)
    [] 3594 <= x /\ x < 3640 -> Num(2)
    [] 3640 <= x /\ x <= 3688 -> Num(0)
    [] 3688 < x /\ x <= 3988 -> Num(2)
    [] x > 3988 -> Num(6)
    [] OTHER -> NaN

TableUrine(x) ==
  CASE x < 67100 -> Num(10)
    [] 67100 <= x /\ x < 142700 -> Num(5)
    [] 142700 <= x /\ x < 254400 -> Num(1)
    [] 254400 <= x /\ x <= 689600 -> Num(0)
    [] x > 689600 -> Num(8)
    [] OTHER -> NaN

TableVent(t) ==
  CASE t = "n" -> Num(0)
    [] t = "y" -> Num(9)
    [] OTHER -> NaN

TableSurg(t) ==
  CASE t = "elective" -> Num(0)
    [] t \in {"urgent", "emergency"} -> Num(6)
    [] OTHER -> NaN

\* The documented point value of one observation; low as in TableTemp.
Table(v, val, low) ==
  IF v \in NumericCols
    THEN IF val.k # "num" THEN NaN
         ELSE CASE v = "prelos" -> TablePrelos(val.n)
                [] v = "age" -> TableAge(val.n)
                [] v = "GCS_total" -> TableGcs(val.n)
                [] v = "hrate" -> TableHr(val.n)
                [] v = "MAP" -> TableMap(val.n)
                [] v = "resp_rate" -> TableResp(val.n)
                [] v = "temp_c" -> TableTemp(val.n, low)
                [] v = "urine" -> TableUrine(val.n)
    ELSE IF val.k # "str" THEN NaN
         ELSE IF v = "ventilated" THEN TableVent(val.s) ELSE TableSurg(val.s)

\* The point values of each documented table; low as in TableTemp.
TablePointValues(v, low) ==
  CASE v = "prelos" -> {5, 3, 0, 2, 1}
    [] v = "age" -> {0, 3, 6, 9, 7}
    [] v = "GCS_total" -> {10, 4, 3, 0}
    [] v = "hrate" -> {4, 0, 1, 3, 6}
    [] v = "MAP" -> {4, 3, 2, 0}
    [] v = "resp_rate" -> {10, 1, 0, 6, 9}
    [] v = "temp_c" -> {low, 4, 2, 0, 6}
    [] v = "urine" -> {10, 5, 1, 0, 8}
    [] v = "ventilated" -> {0, 9}
    [] v = "admission_type" -> {0, 6}

\* The single observations the documentation gives a point value for.
Examples ==
  { <<"GCS_total", Num(1500), Num(0)>>, <<"GCS_total", Num(1400), Num(3)>>,
    <<"hrate", Num(12500), Num(3)>>, <<"hrate", Num(12501), Num(6)>>,
    <<"prelos", Num(495), Num(0)>>, <<"prelos", Num(2400), Num(0)>>,
    <<"MAP", Num(14344), Num(0)>>, <<"MAP", Num(14345), Num(3)>>,
    <<"urine", Num(67100), Num(5)>>, <<"urine", Num(689600), Num(0)>>,
    <<"resp_rate", Num(1250), NaN>>, <<"resp_rate", Num(2250), NaN>>,
    <<"GCS_total", Num(200), NaN>>, <<"GCS_total", Num(1600), NaN>> }

\* Every point value the block of v handed to np.nanmax is the documented one
\* of its observation (for urine: of the only observation of the column).
PointsFollowTable(v, low) ==
  IF v = "urine"
    THEN Len(points[v]) = 1 /\ Len(pd_dataframe[v]) = 1
           => points[v][1] = Table(v, pd_dataframe[v][1], low)
    ELSE \A i \in DOMAIN points[v] :
           points[v][i] = Table(v, pd_dataframe[v][i], low)

-----------------------------------------------------------------------------
(* The claims *)

\* C1: when the call has returned and any one of the ten variables has no
\* observation (an empty column, or only missing values), the total returned
\* is undefined, whatever the other nine hold.
C1_MissingVariablePropagates ==
  Done /\ (\E v \in Vars : Present(pd_dataframe[v]) = {})
    => oasis_score = NaN

\* C1's case: no urine observation, the nine other sub-scores all defined.
C1_Witness ==
  /\ Done
  /\ Present(pd_dataframe["urine"]) = {}
  /\ \A v \in Vars \ {"urine"} : oasis[v].k = "num"
  /\ oasis_score = NaN

\* C2: for a series variable with at least one classifiable observation, the
\* sub-score is the largest point value among the classifiable observations;
\* the unclassifiable ones change nothing, wherever they stand.  Heart rates
\* of 90, 40 and 130 give 6.
C2_MaxAccumulation ==
  Done =>
    /\ \A v \in SeriesCols :
         LET classifiable == {i \in DOMAIN points[v] : points[v][i] # NaN}
         IN  classifiable # {}
               => oasis[v] = Num(Max({points[v][i].n : i \in classifiable}))
    /\ pd_dataframe["hrate"] = <<Num(9000), Num(4000), Num(13000)>>
         => points["hrate"] = <<Num(1), Num(0), Num(6)>> /\ oasis["hrate"] = Num(6)

\* C2's case: an unclassifiable observation after a classifiable one that
\* scored above 0.
C2_Witness ==
  /\ Done
  /\ \E v \in SeriesCols :
       /\ Len(points[v]) >= 2
       /\ points[v][1] # NaN /\ points[v][1].n > 0
       /\ points[v][2] = NaN
       /\ oasis[v] = points[v][1]

\* C3: for a non-empty urine column with an observation, the urine sub-score
\* is the documented point value of the largest observation, classified once;
\* without any observation it is undefined.
C3_UrineSingleClassification ==
  Done /\ Len(pd_dataframe["urine"]) > 0 =>
    LET col == pd_dataframe["urine"]
    IN  IF Present(col) = {} THEN oasis["urine"] = NaN
        ELSE oasis["urine"] = TableUrine(Max({col[i].n : i \in Present(col)}))

\* C3's case: urine = [500, 3000] scores 0, not max(10, 0) = 10, and less
\* than urine = [500] alone would.
C3_Witness ==
  /\ Done
  /\ pd_dataframe["urine"] = <<Num(50000), Num(300000)>>
  /\ oasis["urine"] = Num(0)
  /\ SubScore("urine", <<Num(50000)>>) = Num(10)

\* C4: for every variable but temp_c, the point value given to an observation
\* is the one of the documented table, undefined when no row covers it; the
\* documentation's own examples included.
C4_BreakpointTables ==
  /\ \A v \in Vars \ {"temp_c"} : PointsFollowTable(v, 4)
  /\ \A e \in Examples :
       \A i \in DOMAIN points[e[1]] :
         Len(pd_dataframe[e[1]]) = 1 /\ pd_dataframe[e[1]][i] = e[2]
           => points[e[1]][i] = e[3]

\* C4's case: a heart rate of 125.01 alone scores 6.
C4_Witness ==
  /\ Done
  /\ pd_dataframe["hrate"] = <<Num(12501)>>
  /\ points["hrate"] = <<Num(6)>>
  /\ oasis["hrate"] = Num(6)

\* C5 as stated: every temp_c observation gets the point value of the
\* documented temp_c table, whose first row is "below 33.22 gives 4".
C5_TempTableAsDocumented == PointsFollowTable("temp_c", 4)

\* C5 as amended: the same table with "below 33.22 gives 3".
C5_TempTableAmended == PointsFollowTable("temp_c", 3)

\* C5's case: a temperature of 33.21 alone scores 3.
C5_Witness ==
  /\ Done
  /\ pd_dataframe["temp_c"] = <<Num(3321)>>
  /\ points["temp_c"] = <<Num(3)>>
  /\ oasis["temp_c"] = Num(3)

\* C6: no cell of any column makes the call raise.
C6_NoException == pc # "raised"

\* The total is a number from 0 to 93 and every sub-score is one of the
\* point values of its variable's table; low as in TableTemp.
ScoreInRange(low) ==
  Done /\ oasis_score # NaN =>
    /\ oasis_score.k = "num"
    /\ oasis_score.n \in 0 .. 93
    /\ \A v \in Vars :
         /\ oasis[v].k = "num"
         /\ oasis[v].n >= 0
         /\ oasis[v].n \in TablePointValues(v, low)

\* C7 as stated: a defined total lies in 0 .. 93 and every sub-score is a
\* non-negative point value of its variable's documented table.
C7_ScoreInRangeAsDocumented == ScoreInRange(4)

\* C7 as amended: the same, 3 being a point value of temp_c too.
C7_ScoreInRangeAmended == ScoreInRange(3)

\* C7's case: a defined total with a temp_c sub-score of 3.
C7_Witness ==
  /\ Done
  /\ oasis_score.k = "num"
  /\ oasis["temp_c"] = Num(3)

\* C8: when the ten sub-scores are defined the total is their sum, each
\* counted once; the documented encounter totals 6, and 21 when ventilated
\* and admitted urgently.
C8_TotalIsSum ==
  Done =>
    /\ (\A v \in Vars : oasis[v].k = "num")
         => oasis_score =
              Num(oasis["prelos"].n + oasis["age"].n + oasis["GCS_total"].n
                  + oasis["hrate"].n + oasis["MAP"].n + oasis["resp_rate"].n
                  + oasis["temp_c"].n + oasis["urine"].n
                  + oasis["ventilated"].n + oasis["admission_type"].n)
    /\ pd_dataframe = Typical => oasis_score = Num(6)
    /\ pd_dataframe = [Typical EXCEPT !["ventilated"] = <<Str("y")>>,
                                      !["admission_type"] = <<Str("urgent")>>]
         => oasis_score = Num(21)

\* C8's case: the documented encounter, ventilated and admitted urgently.
C8_Witness ==
  /\ Done
  /\ pd_dataframe = [Typical EXCEPT !["ventilated"] = <<Str("y")>>,
                                    !["admission_type"] = <<Str("urgent")>>]
  /\ oasis_score = Num(21)

\* C9: a series variable's sub-score is undefined only without any
\* observation; with an observation but none classifiable it is 0, and the
\* total is then defined if the other nine sub-scores are.
C9_UnclassifiableScoresZero ==
  Done =>
    \A v \in SeriesCols :
      /\ oasis[v] = NaN => Present(pd_dataframe[v]) = {}
      /\ Present(pd_dataframe[v]) # {}
           /\ (\A i \in DOMAIN points[v] : points[v][i] = NaN)
           => /\ oasis[v] = Num(0)
              /\ (\A w \in Vars \ {v} : oasis[w] # NaN) => oasis_score # NaN

\* C9's case: GCS_total = [2].
C9_Witness ==
  /\ Done
  /\ pd_dataframe["GCS_total"] = <<Num(200)>>
  /\ points["GCS_total"] = <<NaN>>
  /\ oasis["GCS_total"] = Num(0)
  /\ oasis_score # NaN

\* C10: reordering the rows of any one column changes neither that
\* variable's sub-score nor the total.
C10_OrderIndependent ==
  Done =>
    \A v \in Vars :
      \A p \in Permutations(DOMAIN pd_dataframe[v]) :
        LET col == [i \in DOMAIN pd_dataframe[v] |-> pd_dataframe[v][p[i]]]
        IN  /\ SubScore(v, col) = oasis[v]
            /\ ComputeOasis([pd_dataframe EXCEPT ![v] = col]) = oasis_score

\* C10's case: a column whose first two observations score differently.
C10_Witness ==
  /\ Done
  /\ \E v \in SeriesCols :
       /\ Len(points[v]) >= 2
       /\ points[v][1] # NaN /\ points[v][2] # NaN
       /\ points[v][1].n < points[v][2].n

====
